---- MODULE Spec2Model ----
(***************************************************************************)
(* Book Nook: a single-page book-discovery client.  The model covers the   *)
(* two full revisions of the script kept in the repository (src/script.js  *)
(* and src/unnamed/part_001; src/unnamed/part_000 shows the same event     *)
(* listeners as part_001 and hides the other bodies).                      *)
(*                                                                         *)
(* Async handlers are cut at their awaits: the part of a handler that runs *)
(* before its first await is one action, and each continuation that runs   *)
(* when a network response (or a timer) arrives is another.  A suspended   *)
(* continuation is a task record in the bag `tasks`.                       *)
(***************************************************************************)
EXTENDS Integers, Sequences, FiniteSets, Bags, TLC

VARIABLES
    rev,          \* which revision of the script is running
    favorites,    \* let favorites = []  (sequence of book records)
    storage,      \* localStorage['bookNookFavorites']: absent, or the saved list
    hidden,       \* per view: does it carry the class "hidden"
    searchInput,  \* searchInput.value
    panel,        \* innerHTML of book-list, authors-pick-list, favorites-list
    tasks,        \* bag of suspended continuations (requests in flight)
    pairs,        \* history: the last toggleFavorite calls that ran alone
    hist,         \* history: per list, the query last asked and the one shown
    rbArg,        \* renderBooks unit: the `books` argument
    rbDone,       \* renderBooks unit: has renderBooks run
    gem,          \* callGemini unit: one call of callGemini and its recursion
    modal,        \* bookModal.style.display and the content of modalContentBox
    mtasks        \* bag of suspended continuations and timers of the modal

vars == <<rev, favorites, storage, hidden, searchInput, panel, tasks, pairs, hist, rbArg, rbDone, gem, modal, mtasks>>

appVars == <<favorites, storage, hidden, searchInput, panel, tasks, pairs, hist>>
renderVars == <<rbArg, rbDone>>
modalVars == <<modal, mtasks>>

-----------------------------------------------------------------------------
(* Bounds of the model *)

\* longest list handed to renderBooks in the renderBooks unit
MaxLen == 22
\* lists up to this length are enumerated exhaustively in the renderBooks unit
MaxShort == 3
\* number of author-count patterns used to build the longer lists
NumPatterns == 5
\* largest retry budget callGemini is called with in the callGemini unit
MaxRetry == 4
\* most requests the user lets be in flight at once before waiting
MaxInFlight == 2

-----------------------------------------------------------------------------
(* Revisions *)

Revs == {"script.js", "part_001"}

Views == {"home-view", "favorites-view", "authors-pick-view"}
Containers == {"book-list", "authors-pick-list", "favorites-list"}

-----------------------------------------------------------------------------
(* Catalog entries: a book is [id, authors], authors = volumeInfo.authors  *)
(* length, 0 standing for an absent or empty author list.                  *)

Book(i, n) == [id |-> i, authors |-> n]

\* (book.volumeInfo.authors?.length || 1)
AuthorCount(book) == IF book.authors = 0 THEN 1 ELSE book.authors

\* the author-count limit of fetchBooks' filter
MaxAuthors == 3

\* books.slice(0, 20)
MaxCards == 20

-----------------------------------------------------------------------------
(* fetchBooks: result of one catalog request.  A response is               *)
(* [kind, hasItems, items]: kind "ok" (response.ok), "error" (a non-success *)
(* status) or "exception" (fetch or response.json() threw).                *)

Null == [null |-> TRUE, items |-> <<>>]
List(s) == [null |-> FALSE, items |-> s]

OkResponse(s) == [kind |-> "ok", hasItems |-> TRUE, items |-> s]
NoItemsResponse == [kind |-> "ok", hasItems |-> FALSE, items |-> <<>>]
ErrorResponse == [kind |-> "error", hasItems |-> FALSE, items |-> <<>>]
ExceptionResponse == [kind |-> "exception", hasItems |-> FALSE, items |-> <<>>]

KeepBookUnfiltered(book) == TRUE

\* book => (book.volumeInfo.authors?.length || 1) <= 3
KeepBook(book) == AuthorCount(book) <= MaxAuthors

fetchBooks(resp) ==
    IF resp.kind # "ok" THEN Null
    ELSE IF ~resp.hasItems THEN List(<<>>)
    ELSE List(SelectSeq(resp.items, KeepBook))

-----------------------------------------------------------------------------
(* renderBooks *)

Placeholder(k) == [kind |-> k, cards |-> <<>>]
Empty == Placeholder("empty")
Loading == Placeholder("loading")
NoResults == Placeholder("noResults")
Failure == Placeholder("failure")
NoFavorites == Placeholder("noFavorites")
Cards(cs) == [kind |-> "cards", cards |-> cs]

CompareReversed(a, b) == AuthorCount(b) - AuthorCount(a)

\* (a, b) => (a.volumeInfo.authors?.length || 1) - (b.volumeInfo.authors?.length || 1)
Compare(a, b) == AuthorCount(a) - AuthorCount(b)

\* Array.prototype.sort is stable: b goes after the elements that do not
\* compare greater than it.
InsertSorted(s, b) ==
    LET k == Cardinality({i \in 1..Len(s) : Compare(s[i], b) <= 0})
    IN  SubSeq(s, 1, k) \o <<b>> \o SubSeq(s, k + 1, Len(s))

RECURSIVE SortByAuthors(_)
SortByAuthors(s) ==
    IF s = <<>> THEN <<>>
    ELSE InsertSorted(SortByAuthors(SubSeq(s, 1, Len(s) - 1)), s[Len(s)])

SliceAll(s, n) == s

\* s.slice(0, n)
Slice(s, n) == SubSeq(s, 1, IF Len(s) < n THEN Len(s) ELSE n)

\* favorites.some(fav => fav.id === id)
IsFavorited(favs, i) == \E k \in 1..Len(favs) : favs[k].id = i

Card(book, favs) ==
    [id |-> book.id, authors |-> book.authors, favorited |-> IsFavorited(favs, book.id)]

\* what renderBooks shows for books === null: script.js falls through to the
\* empty list, part_001 returns the failure message
RenderNull(r, books) == IF r = "script.js" THEN NoResults ELSE Failure

renderBooks(r, books, favs) ==
    IF books.null THEN RenderNull(r, books)
    ELSE LET booksToDisplay == Slice(books.items, MaxCards)
         IN  IF Len(booksToDisplay) = 0 THEN NoResults
             ELSE LET sorted == SortByAuthors(booksToDisplay)
                  IN  Cards([i \in 1..Len(sorted) |-> Card(sorted[i], favs)])

-----------------------------------------------------------------------------
(* callGemini.  A response of the AI endpoint is [type, status, body]:     *)
(* type "exception" when fetch throws, else "http" with its status; body   *)
(* says what response.json() gives for a success status: "text" (a         *)
(* candidate with text), "noCandidates" (valid JSON without candidate      *)
(* text) or "badJson" (json() throws).                                     *)

\* retryCount = 3
DefaultRetryCount == 3
\* delay = 1000
DefaultDelay == 1000

GeminiResponse(t, st, b) == [type |-> t, status |-> st, body |-> b]

GeminiResponses ==
    {GeminiResponse("exception", 0, "none")}
        \cup {GeminiResponse("http", st, "none") : st \in {429, 500, 503}}
        \cup {GeminiResponse("http", 200, b) : b \in {"text", "noCandidates", "badJson"}}

\* response.ok
ResponseOk(resp) == resp.type = "http" /\ resp.status \in 200..299

String(v) == [type |-> "string", value |-> v]
Undefined == [type |-> "undefined", value |-> ""]
NoResult == [type |-> "pending", value |-> ""]

\* the text the model answers with
ModelText == String("model text")

\* "Sorry, the AI is taking a break. Please try again in a moment."
Apology == String("Sorry, the AI is taking a break. Please try again in a moment.")

RetryOnAnyError(resp, retryCount) == retryCount > 0

\* response.status === 429 && retryCount > 0
ShouldRetry(resp, retryCount) == resp.status = 429 /\ retryCount > 0

SameRetryCount(retryCount) == retryCount

\* retryCount - 1
NextRetryCount(retryCount) == retryCount - 1

SameDelay(delay) == delay

\* delay * 2
NextDelay(delay) == delay * 2

\* result.candidates?.[0]?.content?.parts?.[0]?.text, or the catch block
\* when response.json() throws
ParseResult(resp) ==
    CASE resp.body = "text" -> ModelText
      [] resp.body = "noCandidates" -> Undefined
      [] OTHER -> Apology

GemIdle ==
    [pc |-> "idle", retryCount |-> 0, delay |-> 0, retry0 |-> 0, delay0 |-> 0,
     requests |-> 0, delays |-> <<>>, resps |-> <<>>, result |-> NoResult]

\* callGemini(prompt, retryCount, delay) up to its await fetch(...)
CallGemini(n, d) ==
    /\ gem.pc = "idle"
    /\ gem' = [gem EXCEPT !.pc = "fetching", !.retryCount = n, !.delay = d,
                          !.retry0 = n, !.delay0 = d, !.requests = 1]
    /\ UNCHANGED <<rev, appVars, renderVars, modalVars>>

\* the continuation after await fetch(...): lines 44-57
GeminiFetchSettles(resp) ==
    /\ gem.pc = "fetching"
    /\ LET got == [gem EXCEPT !.resps = Append(@, resp)]
       IN  IF resp.type = "exception"
           THEN gem' = [got EXCEPT !.pc = "done", !.result = Apology]
           ELSE IF ~ResponseOk(resp)
           THEN IF ShouldRetry(resp, gem.retryCount)
                THEN \* await new Promise(res => setTimeout(res, delay))
                     gem' = [got EXCEPT !.pc = "delaying", !.delays = Append(@, gem.delay)]
                ELSE \* throw new Error(...), caught at line 54
                     gem' = [got EXCEPT !.pc = "done", !.result = Apology]
           ELSE gem' = [got EXCEPT !.pc = "done", !.result = ParseResult(resp)]
    /\ UNCHANGED <<rev, appVars, renderVars, modalVars>>

\* the timer fires: return callGemini(prompt, retryCount - 1, delay * 2)
GeminiDelayElapses ==
    /\ gem.pc = "delaying"
    /\ gem' = [gem EXCEPT !.pc = "fetching", !.retryCount = NextRetryCount(@),
                          !.delay = NextDelay(@), !.requests = @ + 1]
    /\ UNCHANGED <<rev, appVars, renderVars, modalVars>>

-----------------------------------------------------------------------------
(* The detail modal.  modal.kind is what modalContentBox holds: "empty",   *)
(* "loader", "error" or "book" (the record of modal.id with its two        *)
(* enrichment buttons, #original-description, #ai-summary-content and      *)
(* #ai-questions-content).  Every assignment to modalContentBox.innerHTML  *)
(* replaces these nodes: a continuation that still holds the old nodes     *)
(* (attached = FALSE) writes to nodes that are no longer in the document.  *)
(* summaryCalls, questionsCalls: history, the number of callGemini calls   *)
(* made by each trigger of this rendering of the record.                   *)
(* History of the openings: modal.opened is the id openModal was called    *)
(* with last (0: never), modal.closeAsked tells whether closeModal has     *)
(* been called since; a suspended openModal or a pending closeModal timer  *)
(* is marked superseded when openModal is called again, and content.stale  *)
(* tells that the content was written by a superseded openModal.           *)
(* descHiddenBy, summaryBy, questionsBy: the id whose enrichment hid the   *)
(* description or wrote the container (0: nobody).  The class 'active'     *)
(* (the CSS transition of lines 173 and 214) is not part of the model.     *)

Html(tag, text) == [tag |-> tag, text |-> text]
Blank == Html("", "")
ModalLoader == Html("loader", "")

ModalContent(k, i) ==
    [kind |-> k, id |-> i,
     descHiddenBy |-> 0,
     summaryShown |-> FALSE, summaryHtml |-> Blank, summaryBy |-> 0,
     questionsShown |-> FALSE, questionsHtml |-> Blank, questionsBy |-> 0,
     summaryBtn |-> "enabled", questionsBtn |-> "enabled",
     summaryCalls |-> 0, questionsCalls |-> 0, stale |-> FALSE]

StillEnabled == "enabled"

\* button.disabled = true: a disabled button dispatches no click
DisabledButton == "disabled"

ModalWith(d, c) == [display |-> d, content |-> c, opened |-> 0, closeAsked |-> FALSE]
ModalClosed == ModalWith("none", ModalContent("empty", 0))

ModalTask(k, i) == [kind |-> k, id |-> i, attached |-> TRUE, superseded |-> FALSE]

\* openModal is called again: what is pending belongs to an earlier opening
SupersedeOpenings(b) ==
    LET moved(t) == IF t.kind \in {"open", "closeTimer"}
                    THEN [t EXCEPT !.superseded = TRUE] ELSE t
        olds(u) == {t \in BagToSet(b) : moved(t) = u}
        sum(S) == LET RECURSIVE Sum(_)
                      Sum(T) == IF T = {} THEN 0
                                ELSE LET x == CHOOSE x \in T : TRUE
                                     IN  CopiesIn(x, b) + Sum(T \ {x})
                  IN  Sum(S)
    IN  [u \in {moved(t) : t \in BagToSet(b)} |-> sum(olds(u))]

\* modalContentBox.innerHTML = ...: the nodes held by suspended enrichment
\* calls leave the document
Detach(b) ==
    LET moved(t) == IF t.kind \in {"summary", "questions"}
                    THEN [t EXCEPT !.attached = FALSE] ELSE t
        olds(u) == {t \in BagToSet(b) : moved(t) = u}
        sum(S) == LET RECURSIVE Sum(_)
                      Sum(T) == IF T = {} THEN 0
                                ELSE LET x == CHOOSE x \in T : TRUE
                                     IN  CopiesIn(x, b) + Sum(T \ {x})
                  IN  Sum(S)
    IN  [u \in {moved(t) : t \in BagToSet(b)} |-> sum(olds(u))]

\* what callGemini can resolve to (see the callGemini unit)
GeminiResults == {ModelText, Apology, Undefined}

\* element.innerHTML = value
AsHtml(result) == IF result = Undefined THEN Html("text", "undefined") ELSE Html("text", result.value)

\* '<ul>' + questions.split(/\d+\.\s/)...join('') + '</ul>'
AsList(result) == Html("ul", result.value)

-----------------------------------------------------------------------------
(* The page: catalog, storage, views, search input, favorites.             *)

\* the external catalog: the same record is served by the search and by
\* the detail endpoint.  B1 is listed by the searches, B2 (no listed
\* authors) is a favorite saved by an earlier session that no search of
\* this session lists, B3 has more authors than fetchBooks lets through.
B1 == Book(1, 2)
B2 == Book(2, 0)
B3 == Book(3, 4)
Catalog == {B1, B2, B3}

BookOfId(i) == CHOOSE b \in Catalog : b.id = i

DefaultQuery == "classic literature"
PicksQuery == "Pulitzer Prize for Fiction"
Genres == {"g"}
TypedInputs == {"", "  ", "g"}

\* `subject:${genre}`
SubjectQuery(genre) == IF genre = "g" THEN "subject:g" ELSE genre

TrimNothing(v) == v

\* String.prototype.trim on the values searchInput can hold
Trim(v) == IF v = "  " THEN "" ELSE v

\* what the catalog lists for a query when the request succeeds
CatalogResult(query) ==
    CASE query = DefaultQuery -> <<B3, B1>>
      [] query = PicksQuery -> <<B1, B3>>
      [] query = "subject:g" -> <<B1>>
      [] OTHER -> <<B3>>

SearchResponses(query) ==
    {ErrorResponse, ExceptionResponse, NoItemsResponse, OkResponse(CatalogResult(query))}

\* JSON.stringify(favorites) / JSON.parse(...)
Stringify(favs) == [i \in 1..Len(favs) |-> <<favs[i].id, favs[i].authors>>]
Parse(str) == [i \in 1..Len(str) |-> Book(str[i][1], str[i][2])]

Absent == [present |-> FALSE, list |-> <<>>]
Stored(str) == [present |-> TRUE, list |-> str]

\* loadFavorites: JSON.parse(localStorage.getItem(...)) || []
loadFavorites(st) == IF st.present THEN Parse(st.list) ELSE <<>>

saveFavoritesLast(favs) ==
    Stored(Stringify(IF favs = <<>> THEN <<>> ELSE <<favs[Len(favs)]>>))

\* saveFavorites
saveFavorites(favs) == Stored(Stringify(favs))

showViewHomeStays(viewId) == [v \in Views |-> v # viewId /\ v # "home-view"]

\* showView(viewId): every view gets the class hidden, then viewId loses it
showView(viewId) == [v \in Views |-> v # viewId]

\* document.querySelector('.view:not(.hidden)')
VisibleViews == {v \in Views : ~hidden[v]}
CurrentView == CHOOSE v \in VisibleViews : TRUE

ContainerOf(v) ==
    CASE v = "home-view" -> "book-list"
      [] v = "favorites-view" -> "favorites-list"
      [] OTHER -> "authors-pick-list"

\* suspended continuations
RenderTask(c, q) ==
    [kind |-> "render", container |-> c, query |-> q, id |-> 0, superseded |-> FALSE]
ToggleTask(i) ==
    [kind |-> "toggle", container |-> "", query |-> "", id |-> i, superseded |-> FALSE]

InFlight == BagCardinality(tasks)
Spawn(b, t) == b (+) SetToBag({t})
Retire(b, t) == b (-) SetToBag({t})

\* History of the catalog requests, kept when hist.on.  asked[c]: the query
\* of the request issued last for the list c; shown[c]: the query whose
\* response was rendered last into c; stale[c]: that response belonged to a
\* request that a later request for c had superseded.  A request in flight
\* is marked superseded when a later request for the same list is issued.
\* blank: performSearch has been called with nothing to search for.
NoQuery == "(none)"
NoHist ==
    [on |-> FALSE,
     asked |-> [c \in Containers |-> NoQuery],
     shown |-> [c \in Containers |-> NoQuery],
     stale |-> [c \in Containers |-> FALSE],
     blank |-> FALSE]

Supersede(b, c) ==
    LET moved(t) == IF t.kind = "render" /\ t.container = c
                    THEN [t EXCEPT !.superseded = TRUE] ELSE t
        olds(u) == {t \in BagToSet(b) : moved(t) = u}
        sum(S) == LET RECURSIVE Sum(_)
                      Sum(T) == IF T = {} THEN 0
                                ELSE LET x == CHOOSE x \in T : TRUE
                                     IN  CopiesIn(x, b) + Sum(T \ {x})
                  IN  Sum(S)
    IN  IF hist.on THEN [u \in {moved(t) : t \in BagToSet(b)} |-> sum(olds(u))] ELSE b

\* a catalog request for the list c is issued, the requests in flight being b
Issue(b, c, q) == Spawn(Supersede(b, c), RenderTask(c, q))
HistOnIssue(c, q) == IF hist.on THEN [hist EXCEPT !.asked[c] = q] ELSE hist
HistOnBlankSearch == IF hist.on THEN [hist EXCEPT !.blank = TRUE] ELSE hist
HistOnRender(t) ==
    IF hist.on THEN [hist EXCEPT !.shown[t.container] = t.query,
                                 !.stale[t.container] = t.superseded]
    ELSE hist

\* a toggleFavorite call is waiting for its detail record
ToggleInFlight == \E t \in BagToSet(tasks) : t.kind = "toggle"

\* displayFavorites
displayFavorites(r, favs) ==
    IF Len(favs) = 0 THEN NoFavorites ELSE renderBooks(r, List(favs), favs)

-----------------------------------------------------------------------------
(* History of toggleFavorite calls, kept (when pairs.on) to state what two *)
(* consecutive calls do.  A call completes when its change of the list has *)
(* been saved or its detail fetch has failed.  cur is the call now         *)
(* running, if no other toggle overlapped it: its id, the id set when it   *)
(* was called, and clean: the list held the id at most once when it was    *)
(* called and its detail fetch has not failed.  last is the call that      *)
(* completed before it.  done tells of the latest two consecutive          *)
(* completed calls for one id whether the id set after the second call     *)
(* equals the id set before the first ("restored" or "changed"), and       *)
(* whether both calls were clean.                                          *)

NoCall == [id |-> 0, before |-> {}, clean |-> TRUE]
NoPairs == [on |-> FALSE, cur |-> NoCall, last |-> NoCall, done |-> "none"]
TrackPairs == [NoPairs EXCEPT !.on = TRUE]

IdSet(favs) == {favs[k].id : k \in 1..Len(favs)}
Occurrences(favs, i) == Cardinality({k \in 1..Len(favs) : favs[k].id = i})

\* a toggleFavorite(i) call starts
PairsOnCall(i) ==
    IF ~pairs.on THEN pairs
    ELSE IF ToggleInFlight THEN TrackPairs
    ELSE [on |-> TRUE,
          cur |-> [id |-> i, before |-> IdSet(favorites),
                   clean |-> Occurrences(favorites, i) <= 1],
          last |-> IF pairs.last.id = i THEN pairs.last ELSE NoCall,
          done |-> "none"]

\* a toggleFavorite call completes with the list favs, the history being
\* prs; failed: its detail fetch failed
PairsOnReturn(prs, favs, failed) ==
    IF prs.cur.id = 0 THEN prs
    ELSE LET c == [prs.cur EXCEPT !.clean = @ /\ ~failed]
         IN  [on |-> TRUE,
              cur |-> NoCall,
              last |-> c,
              done |-> IF prs.last.id # c.id THEN "none"
                       ELSE IF IdSet(favs) = prs.last.before
                       THEN (IF prs.last.clean /\ c.clean THEN "restoredClean" ELSE "restored")
                       ELSE (IF prs.last.clean /\ c.clean THEN "changedClean" ELSE "changed")]

-----------------------------------------------------------------------------
(* Handlers of the page *)

\* init(), up to its await.  script.js: loadFavorites, showLoading,
\* fetchBooks("classic literature"), the home view being the one the page
\* shows when loaded; part_001: loadFavorites, resetToHome.
\* The stored list is one an earlier session saved.
StoredAtStart == {Absent, saveFavorites(<<B2>>)}

Init ==
    /\ rev \in Revs
    /\ storage \in StoredAtStart
    /\ favorites = loadFavorites(storage)
    /\ hidden = showView("home-view")
    /\ searchInput = ""
    /\ panel = [c \in Containers |-> IF c = "book-list" THEN Loading ELSE Empty]
    /\ tasks = SetToBag({RenderTask("book-list", DefaultQuery)})
    /\ pairs = NoPairs
    /\ hist = NoHist
    /\ rbArg = Null
    /\ rbDone = FALSE
    /\ gem = GemIdle
    /\ modal = ModalClosed
    /\ mtasks = EmptyBag

\* the user edits the search box
TypeSearch(v) ==
    /\ searchInput # v
    /\ searchInput' = v
    /\ UNCHANGED <<rev, favorites, storage, hidden, panel, tasks, pairs, hist, renderVars, gem, modalVars>>

\* resetToHome (part_001), up to its await
resetToHome ==
    /\ InFlight < MaxInFlight
    /\ hidden' = showView("home-view")
    /\ panel' = [panel EXCEPT !["book-list"] = Loading]
    /\ searchInput' = ""
    /\ tasks' = Issue(tasks, "book-list", DefaultQuery)
    /\ hist' = HistOnIssue("book-list", DefaultQuery)
    /\ UNCHANGED <<rev, favorites, storage, pairs, renderVars, gem, modalVars>>

\* displayAuthorsPicks, up to its await, after showView(viewId)
NavToPicks ==
    /\ InFlight < MaxInFlight
    /\ hidden' = showView("authors-pick-view")
    /\ panel' = [panel EXCEPT !["authors-pick-list"] = Loading]
    /\ tasks' = Issue(tasks, "authors-pick-list", PicksQuery)
    /\ hist' = HistOnIssue("authors-pick-list", PicksQuery)
    /\ UNCHANGED <<rev, favorites, storage, searchInput, pairs, renderVars, gem, modalVars>>

NavToFavorites ==
    /\ hidden' = showView("favorites-view")
    /\ panel' = [panel EXCEPT !["favorites-list"] = displayFavorites(rev, favorites)]
    /\ UNCHANGED <<rev, favorites, storage, searchInput, tasks, pairs, hist, renderVars, gem, modalVars>>

\* script.js: the home link and the logo only call showView('home-view')
ShowHomeOnly ==
    /\ hidden' = showView("home-view")
    /\ UNCHANGED <<rev, favorites, storage, searchInput, panel, tasks, pairs, hist, renderVars, gem, modalVars>>

\* click on a navigation link
NavClick(viewId) ==
    CASE viewId = "favorites-view" -> NavToFavorites
      [] viewId = "authors-pick-view" -> NavToPicks
      [] OTHER -> IF rev = "script.js" THEN ShowHomeOnly ELSE resetToHome

\* click on the logo
LogoClick == IF rev = "script.js" THEN ShowHomeOnly ELSE resetToHome

\* performSearch, up to its await
performSearch ==
    IF Trim(searchInput) = ""
    THEN \* if (!query) return
         /\ hist' = HistOnBlankSearch
         /\ UNCHANGED <<rev, favorites, storage, hidden, searchInput, panel, tasks, pairs,
                        renderVars, gem, modalVars>>
    ELSE /\ InFlight < MaxInFlight
         /\ hidden' = showView("home-view")
         /\ panel' = [panel EXCEPT !["book-list"] = Loading]
         /\ tasks' = Issue(tasks, "book-list", Trim(searchInput))
         /\ hist' = HistOnIssue("book-list", Trim(searchInput))
         /\ UNCHANGED <<rev, favorites, storage, searchInput, pairs, renderVars, gem, modalVars>>

\* click on a genre button, up to its await
GenreClick(genre) ==
    /\ InFlight < MaxInFlight
    /\ searchInput' = genre
    /\ hidden' = showView("home-view")
    /\ panel' = [panel EXCEPT !["book-list"] = Loading]
    /\ tasks' = Issue(tasks, "book-list", SubjectQuery(genre))
    /\ hist' = HistOnIssue("book-list", SubjectQuery(genre))
    /\ UNCHANGED <<rev, favorites, storage, pairs, renderVars, gem, modalVars>>

RenderSettlesDropStale(t, resp) ==
    /\ BagIn(t, tasks)
    /\ t.kind = "render"
    /\ IF t.superseded
       THEN UNCHANGED <<panel, hist>>
       ELSE /\ panel' = [panel EXCEPT ![t.container] = renderBooks(rev, fetchBooks(resp), favorites)]
            /\ hist' = HistOnRender(t)
    /\ tasks' = Retire(tasks, t)
    /\ UNCHANGED <<rev, favorites, storage, hidden, searchInput, pairs, renderVars, gem, modalVars>>

\* a catalog request settles: renderBooks(container, await fetchBooks(query))
RenderSettles(t, resp) ==
    /\ BagIn(t, tasks)
    /\ t.kind = "render"
    /\ panel' = [panel EXCEPT ![t.container] = renderBooks(rev, fetchBooks(resp), favorites)]
    /\ tasks' = Retire(tasks, t)
    /\ hist' = HistOnRender(t)
    /\ UNCHANGED <<rev, favorites, storage, hidden, searchInput, pairs, renderVars, gem, modalVars>>

\* searchInput.value.trim() || "classic literature"
currentSearchQuery == IF Trim(searchInput) = "" THEN DefaultQuery ELSE Trim(searchInput)

\* toggleFavorite lines 252-259, with the list favs: saveFavorites, then
\* re-render the current view (running: the requests in flight, prs: the
\* history of toggle calls)
AfterToggle(favs, running, prs) ==
    /\ favorites' = favs
    /\ storage' = saveFavorites(favs)
    /\ pairs' = PairsOnReturn(prs, favs, FALSE)
    /\ UNCHANGED <<rev, hidden, searchInput, renderVars, gem, modalVars>>
    /\ CASE VisibleViews = {} ->
              /\ UNCHANGED <<panel, hist>>
              /\ tasks' = running
         [] VisibleViews # {} /\ CurrentView = "home-view" ->
              /\ UNCHANGED panel
              /\ tasks' = Issue(running, "book-list", currentSearchQuery)
              /\ hist' = HistOnIssue("book-list", currentSearchQuery)
         [] VisibleViews # {} /\ CurrentView = "authors-pick-view" ->
              /\ panel' = [panel EXCEPT !["authors-pick-list"] = Loading]
              /\ tasks' = Issue(running, "authors-pick-list", PicksQuery)
              /\ hist' = HistOnIssue("authors-pick-list", PicksQuery)
         [] OTHER ->
              /\ panel' = [panel EXCEPT !["favorites-list"] = displayFavorites(rev, favs)]
              /\ tasks' = running
              /\ UNCHANGED hist

findIndexNever(favs, i) == -1

\* favorites.findIndex(fav => fav.id === i), counting from 0
findIndex(favs, i) ==
    IF \E k \in 1..Len(favs) : favs[k].id = i
    THEN (CHOOSE k \in 1..Len(favs) :
              favs[k].id = i /\ \A j \in 1..(k - 1) : favs[j].id # i) - 1
    ELSE -1

spliceToEnd(favs, bookIndex) == SubSeq(favs, 1, bookIndex)

\* favorites.splice(bookIndex, 1)
splice(favs, bookIndex) ==
    SubSeq(favs, 1, bookIndex) \o SubSeq(favs, bookIndex + 2, Len(favs))

\* the cards the user can click: those of the visible view's list
ClickableIds ==
    IF VisibleViews = {} THEN {}
    ELSE LET cs == panel[ContainerOf(CurrentView)].cards
         IN  {cs[k].id : k \in 1..Len(cs)}

\* click on a card's heart: toggleFavorite(i), up to its first await
FavClick(i) ==
    /\ i \in ClickableIds
    /\ InFlight < MaxInFlight
    /\ IF findIndex(favorites, i) > -1
       THEN AfterToggle(splice(favorites, findIndex(favorites, i)), tasks, PairsOnCall(i))
       ELSE /\ tasks' = Spawn(tasks, ToggleTask(i))
            /\ pairs' = PairsOnCall(i)
            /\ UNCHANGED <<rev, favorites, storage, hidden, searchInput, panel, hist, renderVars, gem, modalVars>>

DetailResponses(i) == {ErrorResponse, ExceptionResponse, OkResponse(<<BookOfId(i)>>)}

ToggleFailsButSaves(t) == AfterToggle(favorites, Retire(tasks, t), pairs)

\* catch (error) { console.error(error); return; }
ToggleFails(t) ==
    /\ tasks' = Retire(tasks, t)
    /\ pairs' = PairsOnReturn(pairs, favorites, TRUE)
    /\ UNCHANGED <<rev, favorites, storage, hidden, searchInput, panel, hist, renderVars, gem, modalVars>>

\* the detail request of toggleFavorite settles: lines 248-259
ToggleFetchSettles(t, resp) ==
    /\ BagIn(t, tasks)
    /\ t.kind = "toggle"
    /\ IF resp.kind = "ok"
       THEN AfterToggle(Append(favorites, resp.items[1]), Retire(tasks, t), pairs)
       ELSE ToggleFails(t)

Next ==
    \/ \E v \in TypedInputs : TypeSearch(v)
    \/ \E viewId \in Views : NavClick(viewId)
    \/ LogoClick
    \/ performSearch
    \/ \E genre \in Genres : GenreClick(genre)
    \/ \E i \in 1..3 : FavClick(i)
    \/ \E t \in {u \in BagToSet(tasks) : u.kind = "render"} :
           \E resp \in SearchResponses(t.query) : RenderSettles(t, resp)
    \/ \E t \in {u \in BagToSet(tasks) : u.kind = "toggle"} :
           \E resp \in DetailResponses(t.id) : ToggleFetchSettles(t, resp)

Spec == Init /\ [][Next]_vars

\* the page with the history of toggle calls recorded, started with nothing
\* stored
InitPairs ==
    /\ rev \in Revs
    /\ storage = Absent
    /\ favorites = loadFavorites(storage)
    /\ hidden = showView("home-view")
    /\ searchInput = ""
    /\ panel = [c \in Containers |-> IF c = "book-list" THEN Loading ELSE Empty]
    /\ tasks = SetToBag({RenderTask("book-list", DefaultQuery)})
    /\ pairs = TrackPairs
    /\ hist = NoHist
    /\ rbArg = Null
    /\ rbDone = FALSE
    /\ gem = GemIdle
    /\ modal = ModalClosed
    /\ mtasks = EmptyBag

SpecPairs == InitPairs /\ [][Next]_vars

\* C1: after any sequence of toggleFavorite calls, overlapping ones included,
\* the favorites list never holds two records with the same id.
C1_NoDuplicateIds ==
    \A j, k \in 1..Len(favorites) : j # k => favorites[j].id # favorites[k].id

C7_NoCardOverThreeAuthors ==
    \A c \in Containers : \A k \in 1..Len(panel[c].cards) :
        AuthorCount(panel[c].cards[k]) <= MaxAuthors

\* C7 witness: searches have been rendered whose results held B3 (4 authors),
\* a favorite has been added, and the favorites list shows the entry with no
\* listed authors.
C7_Witness ==
    /\ panel["book-list"].kind = "cards"
    /\ panel["authors-pick-list"].kind = "cards"
    /\ panel["favorites-list"].kind = "cards"
    /\ \E k \in 1..Len(panel["favorites-list"].cards) :
           panel["favorites-list"].cards[k].authors = 0
    /\ \E k \in 1..Len(favorites) : favorites[k] = B1

\* C11: every step that changes the favorites list or the stored value leaves
\* under 'bookNookFavorites' the serialization of the whole in-memory list
\* (same records, same order); so from the first toggle that changes the
\* list on, the stored value is the serialization of the current list
\* whenever no handler is executing, overlapping toggles included.
C11_StoredIsCurrentList ==
    [][(favorites' # favorites \/ storage' # storage) =>
           (storage'.present /\ Parse(storage'.list) = favorites')]_vars

\* C11 witness: two overlapping toggles have both changed the list (the id 1
\* was pushed twice) and the stored value is the serialization of the list.
C11_Witness ==
    /\ Occurrences(favorites, 1) = 2
    /\ storage.present
    /\ Parse(storage.list) = favorites

\* C12: after every step exactly one panel is visible, and after a handler
\* that calls showView(v) (a navigation click on the link of v, a logo click,
\* a search, a genre click) the visible panel is v, all others being hidden.
C12_ExactlyOneVisible ==
    [][/\ Cardinality(VisibleViews') = 1
       /\ \A v \in Views : NavClick(v) => VisibleViews' = {v}
       /\ LogoClick => VisibleViews' = {"home-view"}
       /\ performSearch => VisibleViews' = {"home-view"}
       /\ \A genre \in Genres : GenreClick(genre) => VisibleViews' = {"home-view"}]_vars

\* C12 witness: after a genre click and a visit of the favorites panel, the
\* curated-picks panel is the visible one.
C12_Witness ==
    /\ VisibleViews = {"authors-pick-view"}
    /\ searchInput = "g"
    /\ panel["favorites-list"] # Empty
    /\ panel["authors-pick-list"].kind = "cards"

\* C13: whenever no network request is in flight, every card of the visible
\* panel carries the favorited marker exactly when its id is in the
\* favorites list.
C13_MarkersMatchFavorites ==
    (tasks = EmptyBag /\ VisibleViews # {}) =>
        LET cs == panel[ContainerOf(CurrentView)].cards
        IN  \A k \in 1..Len(cs) : cs[k].favorited <=> IsFavorited(favorites, cs[k].id)

\* C14: every click on the home navigation link or on the logo issues a
\* catalog request for "classic literature" whose result is then rendered
\* into the home list: the handler leaves that request in flight, with the
\* home view shown.
C14_HomeActivationReloads ==
    [][(NavClick("home-view") \/ LogoClick) =>
           /\ BagCardinality(tasks') = BagCardinality(tasks) + 1
           /\ BagIn(RenderTask("book-list", DefaultQuery), tasks')
           /\ VisibleViews' = {"home-view"}]_vars

\* C21: a toggleFavorite(X) call for an id X not in the favorites list whose
\* detail fetch fails (exception or non-success status) changes neither the
\* favorites list nor the stored favorites, re-renders no panel and issues
\* no catalog query, both when it is called and when its fetch fails.
\* (A call for an id not in the list is a step that leaves its detail
\* request in flight; its fetch fails in the step in which the request
\* settles and the list stays as it is, a fetched record being pushed
\* otherwise.)
C21_FailedToggleChangesNothing ==
    [][(tasks' = tasks) \/
       /\ \A i \in 1..3 :
              CopiesIn(ToggleTask(i), tasks') > CopiesIn(ToggleTask(i), tasks) =>
                  /\ ~IsFavorited(favorites, i)
                  /\ favorites' = favorites /\ storage' = storage /\ panel' = panel
                  /\ tasks' = Spawn(tasks, ToggleTask(i))
       /\ \A i \in 1..3 :
              (/\ CopiesIn(ToggleTask(i), tasks') < CopiesIn(ToggleTask(i), tasks)
               /\ favorites' = favorites) =>
                  /\ storage' = storage /\ panel' = panel
                  /\ tasks' = Retire(tasks, ToggleTask(i))]_vars

\* C21 witness: toggleFavorite(1) was called alone on the empty list, its
\* detail fetch failed, and the list is empty, nothing is stored and no
\* request is in flight.
C21_Witness ==
    /\ pairs.last.id = 1
    /\ pairs.last.before = {}
    /\ ~pairs.last.clean
    /\ favorites = <<>>
    /\ storage = Absent
    /\ tasks = EmptyBag

InitStale ==
    /\ rev \in Revs
    /\ storage = Absent
    /\ favorites = loadFavorites(storage)
    /\ hidden = showView("home-view")
    /\ searchInput = ""
    /\ panel = [c \in Containers |-> IF c = "book-list" THEN Loading ELSE Empty]
    /\ tasks = SetToBag({RenderTask("book-list", DefaultQuery)})
    /\ pairs = NoPairs
    /\ hist = [NoHist EXCEPT !.on = TRUE, !.asked["book-list"] = DefaultQuery]
    /\ rbArg = Null
    /\ rbDone = FALSE
    /\ gem = GemIdle
    /\ modal = ModalClosed
    /\ mtasks = EmptyBag

\* the handlers that issue catalog queries, and their continuations
NextStale ==
    \/ \E v \in TypedInputs : TypeSearch(v)
    \/ \E viewId \in Views : NavClick(viewId)
    \/ LogoClick
    \/ performSearch
    \/ \E genre \in Genres : GenreClick(genre)
    \/ \E t \in {u \in BagToSet(tasks) : u.kind = "render"} :
           \E resp \in SearchResponses(t.query) : RenderSettles(t, resp)

SpecStale == InitStale /\ [][NextStale]_vars

\* C16: no handler discards the response of a superseded catalog request:
\* whenever the response of a request arrives that a later request for the
\* same list has superseded, its result is rendered into the list, whatever
\* has been rendered there since.  (The witness is the interleaving the
\* claim describes.)
C16_LateResponseOverwrites ==
    [][\A t \in {u \in BagToSet(tasks) : u.kind = "render" /\ u.superseded} :
           CopiesIn(t, tasks') < CopiesIn(t, tasks) =>
               /\ hist'.stale[t.container]
               /\ hist'.shown[t.container] = t.query
               /\ \E resp \in SearchResponses(t.query) :
                      panel'[t.container] = renderBooks(rev, fetchBooks(resp), favorites)]_vars

\* C16 witness: queries q1 then q2 were issued for the home list, q2's
\* response was rendered first and q1's response replaced it: no home request
\* is in flight and the visible home list shows the cards of q1, not the
\* result of the query asked last.
C16_Witness ==
    /\ hist.on
    /\ VisibleViews = {"home-view"}
    /\ \A t \in BagToSet(tasks) : ~(t.kind = "render" /\ t.container = "book-list")
    /\ hist.stale["book-list"]
    /\ hist.shown["book-list"] # hist.asked["book-list"]
    /\ panel["book-list"].kind = "cards"

\* C24: performSearch called with an empty or whitespace-only search input
\* issues no catalog request and leaves the visible panel, the content of
\* the lists and the favorites list, stored and in memory, unchanged.
C24_BlankSearchDoesNothing ==
    [][(searchInput \in {"", "  "} /\ performSearch) =>
           /\ tasks' = tasks
           /\ hidden' = hidden
           /\ panel' = panel
           /\ favorites' = favorites
           /\ storage' = storage]_vars

\* C24 witness: performSearch has been called with a whitespace-only input
\* while another panel than home was visible and the home list showed
\* cards; the panel is still visible and the cards still shown.
C24_Witness ==
    /\ hist.blank
    /\ searchInput = "  "
    /\ VisibleViews = {"favorites-view"}
    /\ panel["book-list"].kind = "cards"

\* the home panel with the history of the catalog requests recorded:
\* searches, genre clicks and favorite toggles
NextReload ==
    \/ \E v \in TypedInputs : TypeSearch(v)
    \/ performSearch
    \/ \E genre \in Genres : GenreClick(genre)
    \/ \E i \in 1..3 : FavClick(i)
    \/ \E t \in {u \in BagToSet(tasks) : u.kind = "render"} :
           \E resp \in SearchResponses(t.query) : RenderSettles(t, resp)
    \/ \E t \in {u \in BagToSet(tasks) : u.kind = "toggle"} :
           \E resp \in DetailResponses(t.id) : ToggleFetchSettles(t, resp)

SpecReload == InitStale /\ [][NextReload]_vars

\* C23: when a toggle changes the favorites list while the home panel is
\* visible and shows the rendered result of a query (no home request being
\* in flight), the catalog query it issues to re-render the home list is
\* that query.
C23_ReRenderSameQuery ==
    [][(/\ favorites' # favorites
        /\ VisibleViews = {"home-view"}
        /\ hist.shown["book-list"] # NoQuery
        /\ \A t \in BagToSet(tasks) : ~(t.kind = "render" /\ t.container = "book-list"))
           => /\ hist'.asked["book-list"] = hist.shown["book-list"]
              /\ BagIn(RenderTask("book-list", hist.shown["book-list"]), tasks')]_vars

-----------------------------------------------------------------------------
(* The callGemini unit *)

AppQuiet ==
    /\ favorites = <<>>
    /\ storage = [present |-> FALSE, list |-> <<>>]
    /\ hidden = [v \in Views |-> v # "home-view"]
    /\ searchInput = ""
    /\ panel = [c \in Containers |-> Empty]
    /\ tasks = EmptyBag
    /\ pairs = NoPairs
    /\ hist = NoHist

InitGemini ==
    /\ rev \in Revs
    /\ AppQuiet
    /\ rbArg = Null
    /\ rbDone = FALSE
    /\ gem = GemIdle
    /\ modal = ModalClosed
    /\ mtasks = EmptyBag

NextGemini ==
    \/ \E n \in 0..MaxRetry, d \in {1, DefaultDelay} : CallGemini(n, d)
    \/ \E resp \in GeminiResponses : GeminiFetchSettles(resp)
    \/ GeminiDelayElapses

SpecGemini == InitGemini /\ [][NextGemini]_vars

\* the statuses of the responses received so far
Statuses == [i \in 1..Len(gem.resps) |-> gem.resps[i].status]

\* C4: given three rate-limit (429) responses followed by a success and a
\* retry budget of at least 3, callGemini returns the success text after
\* exactly three delays d, 2d, 4d; given only 429 responses until the budget
\* is exhausted, it returns the apology string.
C4_BackoffThenSuccess ==
    /\ (/\ gem.pc = "done"
        /\ gem.retry0 >= 3
        /\ Len(gem.resps) = 4
        /\ \A i \in 1..3 : gem.resps[i].status = 429
        /\ gem.resps[4] = GeminiResponse("http", 200, "text"))
           => /\ gem.result = ModelText
              /\ gem.delays = <<gem.delay0, 2 * gem.delay0, 4 * gem.delay0>>
    /\ (/\ Len(gem.resps) = gem.retry0 + 1
        /\ \A i \in 1..Len(gem.resps) : gem.resps[i].status = 429)
           => /\ gem.pc = "done"
              /\ gem.result = Apology
              /\ gem.requests = gem.retry0 + 1

\* C4 witness: three 429 responses then a success, with the default budget
\* and delay, and the call has returned.
C4_Witness ==
    /\ gem.pc = "done"
    /\ gem.retry0 = DefaultRetryCount
    /\ gem.delay0 = DefaultDelay
    /\ Statuses = <<429, 429, 429, 200>>
    /\ gem.resps[4].body = "text"

\* C5: callGemini never throws and always resolves to a string, the model's
\* text or the apology string, whatever the outcome of the request.
C5_AlwaysResolvesToString ==
    gem.pc = "done" => gem.result \in {ModelText, Apology}

\* C6: a non-success response whose status is not 429 ends the call with the
\* apology string: no delay is started and no request is issued after it,
\* whatever retry budget remains; when it is the first response the call has
\* made exactly one request and no delay.
C6_OtherErrorIsTerminal ==
    (/\ Len(gem.resps) >= 1
     /\ gem.resps[Len(gem.resps)].type = "http"
     /\ ~ResponseOk(gem.resps[Len(gem.resps)])
     /\ gem.resps[Len(gem.resps)].status # 429)
        => /\ gem.pc = "done"
           /\ gem.result = Apology
           /\ gem.requests = Len(gem.resps)
           /\ Len(gem.delays) = Len(gem.resps) - 1

\* C6 witness: a 500 as first response with retry budget left.
C6_Witness ==
    /\ gem.pc = "done"
    /\ gem.retryCount > 0
    /\ Statuses = <<500>>
    /\ gem.requests = 1
    /\ gem.delays = <<>>

RECURSIVE Pow2(_)
Pow2(k) == IF k = 0 THEN 1 ELSE 2 * Pow2(k - 1)

\* C20: for a retry budget n >= 0 and an initial delay d, whatever the
\* responses, callGemini makes at most n+1 requests and at most n delays, its
\* i-th delay lasts d*2^(i-1), every request after the first follows a 429
\* response received while budget remained, and the call has completed once
\* the (n+1)-th response is in.
C20_BoundedRetries ==
    /\ gem.requests <= gem.retry0 + 1
    /\ Len(gem.delays) <= gem.retry0
    /\ \A i \in 1..Len(gem.delays) : gem.delays[i] = gem.delay0 * Pow2(i - 1)
    /\ \A i \in 1..(gem.requests - 1) :
           /\ gem.resps[i].type = "http"
           /\ gem.resps[i].status = 429
           /\ gem.retry0 - (i - 1) > 0
    /\ Len(gem.delays) \in {gem.requests - 1, gem.requests}
    /\ Len(gem.resps) = gem.retry0 + 1 => gem.pc = "done"

\* C20 witness: a call with a budget of at least 2 that received only 429
\* responses has completed after n+1 requests and n delays.
C20_Witness ==
    /\ gem.pc = "done"
    /\ gem.retry0 >= 2
    /\ gem.requests = gem.retry0 + 1
    /\ Len(gem.delays) = gem.retry0
    /\ \A i \in 1..Len(gem.resps) : gem.resps[i].status = 429

-----------------------------------------------------------------------------
(* The renderBooks unit: renderBooks applied to one argument drawn from    *)
(* RenderInputs, writing book-list.                                        *)

RECURSIVE SeqsUpTo(_, _)
SeqsUpTo(S, n) ==
    IF n = 0 THEN {<<>>}
    ELSE LET shorter == SeqsUpTo(S, n - 1)
         IN  shorter \cup {Append(s, x) : s \in {t \in shorter : Len(t) = n - 1}, x \in S}

ShortBooks == {Book(i, n) : i \in 1..2, n \in {0, 1, 2, 4}}

\* the i-th entry of the p-th long list: ids repeat after 21 entries
PatternBook(p, i) == Book(((i - 1) % (MaxCards + 1)) + 1, (i * p + p) % 6)

LongLists ==
    {[i \in 1..n |-> PatternBook(p, i)] : n \in (MaxShort + 1)..MaxLen, p \in 1..NumPatterns}

RenderInputs == {Null} \cup {List(s) : s \in SeqsUpTo(ShortBooks, MaxShort) \cup LongLists}

InitRender ==
    /\ rev \in Revs
    /\ favorites \in {<<>>, <<Book(1, 1)>>}
    /\ storage = [present |-> FALSE, list |-> <<>>]
    /\ hidden = [v \in Views |-> v # "home-view"]
    /\ searchInput = ""
    /\ panel = [c \in Containers |-> Empty]
    /\ tasks = EmptyBag
    /\ pairs = NoPairs
    /\ hist = NoHist
    /\ rbArg \in RenderInputs
    /\ rbDone = FALSE
    /\ gem = GemIdle
    /\ modal = ModalClosed
    /\ mtasks = EmptyBag

RenderBooksCall ==
    /\ ~rbDone
    /\ rbDone' = TRUE
    /\ panel' = [panel EXCEPT !["book-list"] = renderBooks(rev, rbArg, favorites)]
    /\ UNCHANGED <<rev, favorites, storage, hidden, searchInput, tasks, pairs, hist, rbArg, gem, modalVars>>

NextRender == RenderBooksCall

SpecRender == InitRender /\ [][NextRender]_vars

-----------------------------------------------------------------------------
(* Properties of the renderBooks unit *)

BookList == panel["book-list"]

CardBook(c) == Book(c.id, c.authors)

BagOfSeq(s) ==
    [x \in {s[i] : i \in 1..Len(s)} |-> Cardinality({i \in 1..Len(s) : s[i] = x})]

IdsOf(s) == {s[i].id : i \in 1..Len(s)}

\* C8: when fetchBooks returns the null sentinel for a failed catalog fetch,
\* renderBooks shows the failure placeholder and not the "no results"
\* placeholder; for an empty list it shows "no results"; the two differ.
C8_NullShowsFailure ==
    rbDone =>
        /\ rbArg = fetchBooks(ErrorResponse) =>
               BookList = Failure /\ BookList # NoResults
        /\ rbArg = fetchBooks(NoItemsResponse) => BookList = NoResults
        /\ Failure # NoResults

\* C9: for every non-empty list passed to renderBooks the cards appear in
\* non-decreasing order of author count (no listed authors counting as 1).
C9_RenderedOrderNonDecreasing ==
    (rbDone /\ BookList.kind = "cards") =>
        \A i, j \in 1..Len(BookList.cards) :
            i < j => AuthorCount(BookList.cards[i]) <= AuthorCount(BookList.cards[j])

\* C9 witness: a list that was not in order has been rendered as cards.
C9_Witness ==
    /\ rbDone
    /\ BookList.kind = "cards"
    /\ Len(BookList.cards) >= 3
    /\ \E i \in 1..(Len(rbArg.items) - 1) :
           /\ i < MaxCards
           /\ AuthorCount(rbArg.items[i]) > AuthorCount(rbArg.items[i + 1])

\* C10 as stated: for every non-empty list, of any length, one card is
\* rendered per entry: as many cards as entries, and the same set of ids.
C10_OneCardPerEntry ==
    (rbDone /\ ~rbArg.null /\ Len(rbArg.items) > 0) =>
        /\ BookList.kind = "cards"
        /\ Len(BookList.cards) = Len(rbArg.items)
        /\ IdsOf(BookList.cards) = IdsOf(rbArg.items)

\* C10 amended: for every non-empty list one card is rendered per entry among
\* the first 20 entries of the list, and none for the entries after them.
C10_OneCardPerEntryOfFirst20 ==
    (rbDone /\ ~rbArg.null /\ Len(rbArg.items) > 0) =>
        LET first == SubSeq(rbArg.items, 1,
                            IF Len(rbArg.items) < MaxCards THEN Len(rbArg.items) ELSE MaxCards)
        IN  /\ BookList.kind = "cards"
            /\ Len(BookList.cards) = Len(first)
            /\ BagOfSeq([i \in 1..Len(BookList.cards) |-> CardBook(BookList.cards[i])])
                   = BagOfSeq(first)

\* C10 witness: a list of more than 20 entries has been rendered as 20 cards.
C10_Witness ==
    /\ rbDone
    /\ ~rbArg.null
    /\ Len(rbArg.items) > MaxCards
    /\ BookList.kind = "cards"
    /\ Len(BookList.cards) = MaxCards

-----------------------------------------------------------------------------
(* The modal unit: openModal, closeModal and the two enrichment triggers,  *)
(* for the books of ModalIds.                                              *)

ModalIds == {1, 2}

ModalInFlight == BagCardinality(mtasks)

InitModal ==
    /\ rev \in Revs
    /\ AppQuiet
    /\ rbArg = Null
    /\ rbDone = FALSE
    /\ gem = GemIdle
    /\ modal = ModalClosed
    /\ mtasks = EmptyBag

\* openModal(bookId), up to its await fetch(...)
openModal(i) ==
    /\ ModalInFlight < MaxInFlight
    /\ modal' = [ModalWith("flex", ModalContent("loader", 0)) EXCEPT !.opened = i]
    /\ mtasks' = Spawn(SupersedeOpenings(Detach(mtasks)), ModalTask("open", i))
    /\ UNCHANGED <<rev, appVars, renderVars, gem>>

OpenResultKeepsLoader(t, ok) ==
    IF ok THEN [ModalContent("book", t.id) EXCEPT !.stale = t.superseded] ELSE modal.content

\* what openModal(t.id) writes to modalContentBox after its await: the
\* record (lines 189-205) or, from the catch block, the error message
OpenResult(t, ok) ==
    [(IF ok THEN ModalContent("book", t.id) ELSE ModalContent("error", 0))
         EXCEPT !.stale = t.superseded]

OpenSettlesDropStale(t, ok) ==
    /\ BagIn(t, mtasks)
    /\ t.kind = "open"
    /\ IF t.superseded
       THEN /\ UNCHANGED modal
            /\ mtasks' = Retire(mtasks, t)
       ELSE /\ modal' = [modal EXCEPT !.content =
                             IF ok THEN ModalContent("book", t.id) ELSE ModalContent("error", 0)]
            /\ mtasks' = Detach(Retire(mtasks, t))
    /\ UNCHANGED <<rev, appVars, renderVars, gem>>

\* the detail request of openModal settles: lines 177-209
OpenSettles(t, ok) ==
    /\ BagIn(t, mtasks)
    /\ t.kind = "open"
    /\ modal' = [modal EXCEPT !.content = OpenResult(t, ok)]
    /\ mtasks' = Detach(Retire(mtasks, t))
    /\ UNCHANGED <<rev, appVars, renderVars, gem>>

\* closeModal: click on the close button or on the backdrop
closeModal ==
    /\ modal.display = "flex"
    /\ ModalInFlight < MaxInFlight
    /\ mtasks' = Spawn(mtasks, ModalTask("closeTimer", 0))
    /\ modal' = [modal EXCEPT !.closeAsked = TRUE]
    /\ UNCHANGED <<rev, appVars, renderVars, gem>>

\* the 300 ms timer of closeModal fires
CloseTimerFires(t) ==
    /\ BagIn(t, mtasks)
    /\ t.kind = "closeTimer"
    /\ modal' = [modal EXCEPT !.display = "none", !.content = ModalContent("empty", 0)]
    /\ mtasks' = Detach(Retire(mtasks, t))
    /\ UNCHANGED <<rev, appVars, renderVars, gem>>

\* click on "Generate AI Summary": generateAISummary up to await callGemini
generateAISummary ==
    /\ modal.display = "flex"
    /\ modal.content.kind = "book"
    /\ modal.content.summaryBtn = "enabled"
    /\ ModalInFlight < MaxInFlight
    /\ modal' = [modal EXCEPT !.content.summaryBtn = DisabledButton,
                              !.content.summaryCalls = @ + 1,
                              !.content.summaryHtml = ModalLoader,
                              !.content.summaryShown = TRUE,
                              !.content.summaryBy = modal.content.id]
    /\ mtasks' = Spawn(mtasks, ModalTask("summary", modal.content.id))
    /\ UNCHANGED <<rev, appVars, renderVars, gem>>

\* callGemini resolves for generateAISummary: lines 75-77
SummarySettles(t, result) ==
    /\ BagIn(t, mtasks)
    /\ t.kind = "summary"
    /\ mtasks' = Retire(mtasks, t)
    /\ IF modal.content.kind # "book"
       THEN \* getElementById('original-description') is null: TypeError
            UNCHANGED modal
       ELSE LET hid == [modal EXCEPT !.content.descHiddenBy = t.id]
            IN  modal' = IF t.attached
                         THEN [hid EXCEPT !.content.summaryHtml = AsHtml(result),
                                          !.content.summaryBy = t.id,
                                          !.content.summaryBtn = "gone"]
                         ELSE hid
    /\ UNCHANGED <<rev, appVars, renderVars, gem>>

\* click on "Get Discussion Questions", up to await callGemini
generateDiscussionQuestions ==
    /\ modal.display = "flex"
    /\ modal.content.kind = "book"
    /\ modal.content.questionsBtn = "enabled"
    /\ ModalInFlight < MaxInFlight
    /\ modal' = [modal EXCEPT !.content.questionsBtn = DisabledButton,
                              !.content.questionsCalls = @ + 1,
                              !.content.questionsHtml = ModalLoader,
                              !.content.questionsShown = TRUE,
                              !.content.questionsBy = modal.content.id]
    /\ mtasks' = Spawn(mtasks, ModalTask("questions", modal.content.id))
    /\ UNCHANGED <<rev, appVars, renderVars, gem>>

\* callGemini resolves for generateDiscussionQuestions: lines 96-98
QuestionsSettles(t, result) ==
    /\ BagIn(t, mtasks)
    /\ t.kind = "questions"
    /\ mtasks' = Retire(mtasks, t)
    /\ IF result = Undefined \/ ~t.attached
       THEN \* undefined.split is a TypeError; detached nodes are not shown
            UNCHANGED modal
       ELSE modal' = [modal EXCEPT !.content.questionsHtml = AsList(result),
                                   !.content.questionsBy = t.id,
                                   !.content.questionsBtn = "gone"]
    /\ UNCHANGED <<rev, appVars, renderVars, gem>>

NextModal ==
    \/ \E i \in ModalIds : openModal(i)
    \/ \E t \in BagToSet(mtasks), ok \in BOOLEAN : OpenSettles(t, ok)
    \/ closeModal
    \/ \E t \in BagToSet(mtasks) : CloseTimerFires(t)
    \/ generateAISummary
    \/ \E t \in BagToSet(mtasks), result \in GeminiResults : SummarySettles(t, result)
    \/ generateDiscussionQuestions
    \/ \E t \in BagToSet(mtasks), result \in GeminiResults : QuestionsSettles(t, result)

SpecModal == InitModal /\ [][NextModal]_vars

\* C3: nothing done by the enrichment triggers of a modal opened for id A,
\* a late AI response for A included, changes the modal later rendered for a
\* different id B: B's description is hidden and B's summary and question
\* containers are shown and written only by B's own triggers.
C3_NoEnrichmentLeak ==
    modal.content.kind = "book" =>
        /\ modal.content.descHiddenBy \in {0, modal.content.id}
        /\ modal.content.summaryBy \in {0, modal.content.id}
        /\ modal.content.questionsBy \in {0, modal.content.id}
        /\ modal.content.summaryBy = 0 =>
               ~modal.content.summaryShown /\ modal.content.summaryHtml = Blank
        /\ modal.content.questionsBy = 0 =>
               ~modal.content.questionsShown /\ modal.content.questionsHtml = Blank

\* C15: within one opening of the modal each enrichment trigger invokes
\* callGemini at most once, whether its first invocation is pending, has
\* completed or has failed.
C15_AtMostOneCallPerTrigger ==
    /\ modal.content.summaryCalls <= 1
    /\ modal.content.questionsCalls <= 1

\* C15 witness: in one opening the summary trigger was used and its call has
\* completed, and the questions trigger was used and its call is pending.
C15_Witness ==
    /\ modal.content.kind = "book"
    /\ modal.content.summaryCalls = 1
    /\ modal.content.summaryBtn = "gone"
    /\ modal.content.questionsCalls = 1
    /\ modal.content.questionsBtn = DisabledButton
    /\ \E t \in BagToSet(mtasks) : t.kind = "questions" /\ t.attached

\* C17: no suspended openModal is aborted: whenever the detail response of
\* an openModal arrives that a later openModal has superseded, it replaces
\* the content of the modal with its own record or with its error message.
\* (The witness is the interleaving the claim describes.)
C17_LateOpenOverwrites ==
    [][\A t \in {u \in BagToSet(mtasks) : u.kind = "open" /\ u.superseded} :
           CopiesIn(t, mtasks') < CopiesIn(t, mtasks) =>
               /\ modal'.content.stale
               /\ \/ modal'.content.kind = "error"
                  \/ modal'.content.kind = "book" /\ modal'.content.id = t.id]_vars

\* C17 witness: openModal(A), then openModal(B) for another id; B's record
\* was rendered first and A's late response replaced it: nothing is pending
\* and the displayed modal shows A although B was opened last.
C17_Witness ==
    /\ modal.display = "flex"
    /\ mtasks = EmptyBag
    /\ modal.content.kind = "book"
    /\ modal.content.stale
    /\ modal.opened # 0
    /\ modal.content.id # modal.opened

\* C18 as stated: when the detail fetch of openModal fails, the modal ends
\* up displayed with the inline error message, and the favorites list, the
\* stored favorites and the visible panel are unchanged.
C18_FailedOpenShowsError ==
    [][\A t \in {u \in BagToSet(mtasks) : u.kind = "open"} :
           OpenSettles(t, FALSE) =>
               /\ modal'.display = "flex"
               /\ modal'.content.kind = "error"
               /\ favorites' = favorites /\ storage' = storage /\ hidden' = hidden]_vars

\* C18 amended: when the detail fetch of openModal fails, the content of the
\* modal becomes the inline error message and nothing else changes: the
\* modal is displayed if it still was (a closeModal timer that fired after
\* the call has hidden it), and the favorites list, the stored favorites and
\* the visible panel are unchanged.
C18_FailedOpenWritesError ==
    [][\A t \in {u \in BagToSet(mtasks) : u.kind = "open"} :
           OpenSettles(t, FALSE) =>
               /\ modal'.display = modal.display
               /\ modal'.content.kind = "error"
               /\ favorites' = favorites /\ storage' = storage /\ hidden' = hidden]_vars

\* C18 witness: the only openModal pending has failed and the displayed modal
\* shows the error message.
C18_Witness ==
    /\ modal.opened # 0
    /\ mtasks = EmptyBag
    /\ modal.display = "flex"
    /\ modal.content.kind = "error"
    /\ ~modal.content.stale

\* C19: after openModal is called, and until closeModal is called again, the
\* modal is displayed and its content is not cleared, also when the timer of
\* an earlier closeModal was pending when openModal was called.
C19_OpenStaysUntilClosed ==
    (modal.opened # 0 /\ ~modal.closeAsked) =>
        /\ modal.display = "flex"
        /\ modal.content.kind # "empty"

====
